---- MODULE Spec2Model ----
(***************************************************************************)
(* Air-quality ingestion pipeline (ChefData/Air_Quality_Analysis).         *)
(*                                                                         *)
(* One pipeline run (AirQualityProcessor.fetch_process_load_data) fetches  *)
(* a batch of raw records, resolves countries / cities / locations to      *)
(* surrogate ids against the rows already stored, de-duplicates the        *)
(* measurements against the stored ones, and appends the new rows to the   *)
(* four core tables and to one table per (parameter, unit).                *)
(*                                                                         *)
(* Text values that the code only compares are TLA+ strings.  Parameter    *)
(* and unit, which the loader turns into table names, are sequences of     *)
(* one-character strings.  A timestamp string is a record of its wall      *)
(* clock reading and its UTC offset; an unparseable one has ok = FALSE.    *)
(* A data frame of measurements is a bag of rows (the code never depends   *)
(* on its row order); the entity frames and tables are sequences in        *)
(* insertion order.                                                        *)
(***************************************************************************)
EXTENDS Integers, Sequences, FiniteSets, Bags, TLC

VARIABLES
    store,        \* the four core tables of the database
    pk,           \* core tables that carry a PRIMARY KEY constraint
    fk,           \* core tables that carry a FOREIGN KEY constraint
    paramTables,  \* parameter tables: sanitized table name -> bag of rows
    pc,           \* position inside fetch_process_load_data
    results,      \* the batch returned by fetch_air_quality_data
    existing,     \* the four frames read by process_air_quality_data
    out,          \* what process_air_quality_data returned (or that it raised)
    ti,           \* index into table_data of the next core table to load
    groups,       \* parameter groups still to upload, in iteration order
    log,          \* what the run reported through the logger
    closed,       \* number of api_connector.close() calls of this run
    runs,         \* number of finished runs
    faults,       \* number of store faults injected so far
    readFault,    \* the tables whose read failed in this run
    start,        \* history: the tables, constraints and fault count at the start of this run
    prev,         \* history: batch, resolution and outcome of the previous run
    arg,          \* input of the pure function under test (function harness)
    ret           \* its result

vars == <<store, pk, fk, paramTables, pc, results, existing, out, ti, groups,
          log, closed, runs, faults, readFault, start, prev, arg, ret>>

-----------------------------------------------------------------------------
(* Bounds of the model.                                                    *)

MaxRuns == 2
MaxBatch == 2
MaxFaults == 2
MaxRows == 3
MaxId == 3
MaxName == 2

-----------------------------------------------------------------------------
(* Characters and strings-as-sequences.                                    *)

\* The characters of the model, in code-point order.
Alphabet ==
    <<"\t", " ", "%", "-", ".", "/", "0", "1", "2", "3", "5", "M", "P", "_",
      "a", "d", "e", "g", "m", "n", "o", "p", "q", "u">>

CharCode(c) == CHOOSE i \in 1..Len(Alphabet) : Alphabet[i] = c

RECURSIVE LexLess(_, _)
LexLess(a, b) ==
    IF b = <<>> THEN FALSE
    ELSE IF a = <<>> THEN TRUE
    ELSE IF Head(a) # Head(b) THEN CharCode(Head(a)) < CharCode(Head(b))
    ELSE LexLess(Tail(a), Tail(b))

-----------------------------------------------------------------------------
(* Small helpers on sequences, maps and bags.                              *)

Range(s) == {s[i] : i \in 1..Len(s)}

Max2(a, b) == IF a >= b THEN a ELSE b

Put(m, k, v) == [x \in (DOMAIN m) \cup {k} |-> IF x = k THEN v ELSE m[x]]

EmptyMap == [x \in {} |-> 0]

RECURSIVE SeqToBag(_)
SeqToBag(s) ==
    IF s = <<>> THEN EmptyBag ELSE SetToBag({Head(s)}) (+) SeqToBag(Tail(s))

IsEmptyBag(b) == DOMAIN b = {}

RECURSIVE MaxOfSeq(_)
MaxOfSeq(s) == IF s = <<>> THEN 0 ELSE Max2(Head(s), MaxOfSeq(Tail(s)))

-----------------------------------------------------------------------------
(* Raw input: the records of the fetch service.                            *)

\* lastUpdated strings: wall-clock reading and UTC offset (hours).
T0 == [ok |-> TRUE, wall |-> 0, off |-> 0]
T1 == [ok |-> TRUE, wall |-> 1, off |-> 1]
T2 == [ok |-> TRUE, wall |-> 1, off |-> 0]
BadTs == [ok |-> FALSE, wall |-> 0, off |-> 0]

Pm25 == <<"p", "m", "2", "5">>
O3 == <<"o", "3">>
Ug == <<"u", "g">>

RawMeasurement(p, v, t, u) ==
    [parameter |-> p, value |-> v, lastUpdated |-> t, unit |-> u]

\* A record of the batch.  ok = FALSE stands for a record that lacks one of
\* the keys 'location', 'city', 'country', 'coordinates'.
RawRecord(loc, city, country, lat, lon, ms) ==
    [ok |-> TRUE, location |-> loc, city |-> city, country |-> country,
     latitude |-> lat, longitude |-> lon, measurements |-> ms]

Malformed ==
    [ok |-> FALSE, location |-> "", city |-> "", country |-> "",
     latitude |-> 0, longitude |-> 0, measurements |-> <<>>]

RecA == RawRecord("StationA", "Leeds", "UK", 0, 0,
                  <<RawMeasurement(Pm25, 12, T0, Ug)>>)
RecB == RawRecord("StationA", "Leeds", "FR", 0, 1,
                  <<RawMeasurement(Pm25, 12, T0, Ug),
                    RawMeasurement(Pm25, 12, T0, Ug)>>)
RecC == RawRecord("StationA", "Leeds", "UK", 0, 1,
                  <<RawMeasurement(O3, 7, BadTs, Ug)>>)
RecD == RawRecord("StationB", "Paris", "FR", 0, 0, <<>>)
RecE == RawRecord("StationA", "Leeds", "UK", 1, 0,
                  <<RawMeasurement(Pm25, 12, T0, Ug)>>)

RawRecords == {RecA, RecB, RecC, RecD, Malformed}

RECURSIVE SeqsUpTo(_, _)
SeqsUpTo(S, n) ==
    IF n = 0 THEN {<<>>}
    ELSE LET shorter == SeqsUpTo(S, n - 1)
         IN  shorter \cup {Append(s, x) : s \in {q \in shorter : Len(q) = n - 1}, x \in S}

Batches == SeqsUpTo(RawRecords, MaxBatch)

-----------------------------------------------------------------------------
(* The store.                                                              *)

CoreTablesCitiesFirst == <<"cities", "countries", "locations", "measurements">>

\* table_data of _upload_data, in the order of its loop
CoreTables == <<"countries", "cities", "locations", "measurements">>

EntityTables == {"countries", "cities", "locations"}

EmptyStore ==
    [countries |-> <<>>, cities |-> <<>>, locations |-> <<>>,
     measurements |-> EmptyBag]

EmptyFrame(t) == IF t = "measurements" THEN EmptyBag ELSE <<>>

IsEmptyFrame(t, df) == IF t = "measurements" THEN IsEmptyBag(df) ELSE df = <<>>

\* A core table exists once to_sql has created it, which the pipeline only
\* does with rows to append: it exists exactly when it holds rows.
\* A failed existence query answers False.
CheckTableExists(db, t, failed) == ~failed /\ ~IsEmptyFrame(t, db[t])

\* A missing table and a failed read both give an empty frame.
FetchTableAsDataframe(db, t, failed) ==
    IF ~CheckTableExists(db, t, failed) THEN EmptyFrame(t)
    ELSE IF failed THEN EmptyFrame(t)
    ELSE db[t]

-----------------------------------------------------------------------------
(* DataProcessor.process_air_quality_data.                                 *)

NaT == -1

CountryPairs(df) ==
    [i \in 1..Len(df) |-> <<df[i].country_name, df[i].country_id>>]

CityPairs(df) ==
    [i \in 1..Len(df) |-> <<<<df[i].city_name, df[i].country_id>>, df[i].city_id>>]

LocationPairs(df) ==
    [i \in 1..Len(df) |->
        <<<<df[i].location_name, df[i].city_id, df[i].latitude, df[i].longitude>>,
          df[i].location_id>>]

NextCounterLast(counter, id) == id + 1

NextCounter(counter, id) == Max2(counter, id + 1)

\* populate_id_map over the <<key, id>> pairs of the rows, in row order.
RECURSIVE PopulateIdMap(_, _, _)
PopulateIdMap(pairs, id_map, counter) ==
    IF pairs = <<>> THEN [id_map |-> id_map, counter |-> counter]
    ELSE PopulateIdMap(Tail(pairs),
                       Put(id_map, Head(pairs)[1], Head(pairs)[2]),
                       NextCounter(counter, Head(pairs)[2]))

InitialState(ex) ==
    LET c == PopulateIdMap(CountryPairs(ex.countries), EmptyMap, 1)
        y == PopulateIdMap(CityPairs(ex.cities), EmptyMap, 1)
        l == PopulateIdMap(LocationPairs(ex.locations), EmptyMap, 1)
    IN  [country_id_map |-> c.id_map, country_id_counter |-> c.counter,
         city_id_map |-> y.id_map, city_id_counter |-> y.counter,
         location_id_map |-> l.id_map, location_id_counter |-> l.counter,
         countries |-> <<>>, cities |-> <<>>, locations |-> <<>>,
         measurements |-> <<>>, resolved |-> <<>>, raised |-> FALSE]

CountryProcessingAlwaysNew(st, r) ==
    [st EXCEPT !.country_id_map = Put(@, r.country, st.country_id_counter),
               !.countries = Append(@, [country_id |-> st.country_id_counter,
                                        country_name |-> r.country]),
               !.country_id_counter = @ + 1]

CountryProcessing(st, r) ==
    IF r.country \notin DOMAIN st.country_id_map
    THEN [st EXCEPT !.country_id_map = Put(@, r.country, st.country_id_counter),
                    !.countries = Append(@, [country_id |-> st.country_id_counter,
                                             country_name |-> r.country]),
                    !.country_id_counter = @ + 1]
    ELSE st

CityProcessingCounterAsFk(st, r) ==
    LET country_id == st.country_id_map[r.country]
        city_key == <<r.city, country_id>>
    IN  IF city_key \notin DOMAIN st.city_id_map
        THEN [st EXCEPT !.city_id_map = Put(@, city_key, st.city_id_counter),
                        !.cities = Append(@, [city_id |-> st.city_id_counter,
                                              city_name |-> r.city,
                                              country_id |-> st.country_id_counter]),
                        !.city_id_counter = @ + 1]
        ELSE st

\* A city keyed by its name alone: a name that the registry holds under
\* another country gets the id of that entry.
CityProcessingIdByName(st, r) ==
    LET country_id == st.country_id_map[r.country]
        city_key == <<r.city, country_id>>
        named == {k \in DOMAIN st.city_id_map : k[1] = r.city}
    IN  IF city_key \in DOMAIN st.city_id_map THEN st
        ELSE IF named # {}
        THEN [st EXCEPT !.city_id_map =
                            Put(@, city_key, st.city_id_map[CHOOSE k \in named : TRUE])]
        ELSE [st EXCEPT !.city_id_map = Put(@, city_key, st.city_id_counter),
                        !.cities = Append(@, [city_id |-> st.city_id_counter,
                                              city_name |-> r.city,
                                              country_id |-> country_id]),
                        !.city_id_counter = @ + 1]

CityProcessingBumpsCounter(st, r) ==
    LET country_id == st.country_id_map[r.country]
        city_key == <<r.city, country_id>>
    IN  IF city_key \notin DOMAIN st.city_id_map
        THEN [st EXCEPT !.city_id_map = Put(@, city_key, st.city_id_counter),
                        !.cities = Append(@, [city_id |-> st.city_id_counter,
                                              city_name |-> r.city,
                                              country_id |-> country_id]),
                        !.city_id_counter = @ + 1]
        ELSE [st EXCEPT !.city_id_counter = @ + 1]

CityProcessing(st, r) ==
    LET country_id == st.country_id_map[r.country]
        city_key == <<r.city, country_id>>
    IN  IF city_key \notin DOMAIN st.city_id_map
        THEN [st EXCEPT !.city_id_map = Put(@, city_key, st.city_id_counter),
                        !.cities = Append(@, [city_id |-> st.city_id_counter,
                                              city_name |-> r.city,
                                              country_id |-> country_id]),
                        !.city_id_counter = @ + 1]
        ELSE st

LocationProcessingSkipId(st, r) ==
    LET country_id == st.country_id_map[r.country]
        city_id == st.city_id_map[<<r.city, country_id>>]
        location_key == <<r.location, city_id, r.latitude, r.longitude>>
    IN  IF location_key \notin DOMAIN st.location_id_map
        THEN [st EXCEPT !.location_id_map = Put(@, location_key, st.location_id_counter + 1),
                        !.locations = Append(@, [location_id |-> st.location_id_counter + 1,
                                                 location_name |-> r.location,
                                                 city_id |-> city_id,
                                                 latitude |-> r.latitude,
                                                 longitude |-> r.longitude]),
                        !.location_id_counter = @ + 2]
        ELSE st

LocationProcessingKeepsCounter(st, r) ==
    LET country_id == st.country_id_map[r.country]
        city_id == st.city_id_map[<<r.city, country_id>>]
        location_key == <<r.location, city_id, r.latitude, r.longitude>>
    IN  IF location_key \notin DOMAIN st.location_id_map
        THEN [st EXCEPT !.location_id_map = Put(@, location_key, st.location_id_counter),
                        !.locations = Append(@, [location_id |-> st.location_id_counter,
                                                 location_name |-> r.location,
                                                 city_id |-> city_id,
                                                 latitude |-> r.latitude,
                                                 longitude |-> r.longitude])]
        ELSE st

LocationProcessing(st, r) ==
    LET country_id == st.country_id_map[r.country]
        city_id == st.city_id_map[<<r.city, country_id>>]
        location_key == <<r.location, city_id, r.latitude, r.longitude>>
    IN  IF location_key \notin DOMAIN st.location_id_map
        THEN [st EXCEPT !.location_id_map = Put(@, location_key, st.location_id_counter),
                        !.locations = Append(@, [location_id |-> st.location_id_counter,
                                                 location_name |-> r.location,
                                                 city_id |-> city_id,
                                                 latitude |-> r.latitude,
                                                 longitude |-> r.longitude]),
                        !.location_id_counter = @ + 1]
        ELSE st

\* measurements.extend([...]) for one record, and the ids the record resolved to.
AppendMeasurements(st, r) ==
    LET country_id == st.country_id_map[r.country]
        city_id == st.city_id_map[<<r.city, country_id>>]
        location_id ==
            st.location_id_map[<<r.location, city_id, r.latitude, r.longitude>>]
        rows == [i \in 1..Len(r.measurements) |->
                    [location_id |-> location_id,
                     parameter |-> r.measurements[i].parameter,
                     value |-> r.measurements[i].value,
                     last_updated |-> r.measurements[i].lastUpdated,
                     unit |-> r.measurements[i].unit]]
    IN  [st EXCEPT !.measurements = @ \o rows,
                   !.resolved = Append(@, [country_id |-> country_id,
                                           city_id |-> city_id,
                                           location_id |-> location_id])]

\* The loop taken from the last record of the batch to the first.
RECURSIVE ResolveRecordsLastFirst(_, _)
ResolveRecordsLastFirst(st, rs) ==
    IF rs = <<>> THEN st
    ELSE IF ~Head(rs).ok THEN [st EXCEPT !.raised = TRUE]
    ELSE LET s1 == ResolveRecordsLastFirst(st, Tail(rs))
         IN  IF s1.raised THEN s1
             ELSE AppendMeasurements(
                    LocationProcessing(
                        CityProcessing(CountryProcessing(s1, Head(rs)), Head(rs)),
                        Head(rs)),
                    Head(rs))

\* The body of `for result in results`, which raises KeyError at the first
\* record that lacks a required key.
RECURSIVE ResolveRecords(_, _)
ResolveRecords(st, rs) ==
    IF rs = <<>> THEN st
    ELSE IF ~Head(rs).ok THEN [st EXCEPT !.raised = TRUE]
    ELSE ResolveRecords(
            AppendMeasurements(
                LocationProcessing(
                    CityProcessing(CountryProcessing(st, Head(rs)), Head(rs)),
                    Head(rs)),
                Head(rs)),
            Tail(rs))

\* pd.to_datetime(..., errors='coerce') on one string: the parsed timestamp,
\* still carrying its offset, or NaT.
ToDatetime(s) == IF s.ok THEN s ELSE BadTs

\* A column that holds NaT beside timestamps would not be a datetime column.
ColumnOffsetsNaTAsOffset(ms) ==
    {IF ToDatetime(ms[i].last_updated).ok
     THEN ToDatetime(ms[i].last_updated).off ELSE -1 : i \in 1..Len(ms)}

\* The offsets of the parsed column.  Series.apply gives a datetime column
\* only when all parsed values carry one offset; otherwise the column is of
\* dtype object and the .dt accessor raises AttributeError.
ColumnOffsets(ms) ==
    {ToDatetime(ms[i].last_updated).off :
        i \in {j \in 1..Len(ms) : ToDatetime(ms[j].last_updated).ok}}

\* .dt.tz_localize(None) drops the offset and keeps the wall-clock reading.
TzLocalizeNone(t) == IF t.ok THEN t.wall ELSE NaT

NormalizeTimestamps(ms) ==
    [i \in 1..Len(ms) |->
        [ms[i] EXCEPT !.last_updated = TzLocalizeNone(ToDatetime(@))]]

\* pd.read_sql infers the column types from the values: a last_updated
\* column that holds only NULLs comes back with dtype object, not
\* datetime64, and merge refuses to join a datetime64 key with an object
\* key (ValueError).
MergeKeysMismatch(ex) ==
    ~IsEmptyBag(ex) /\ \A r \in DOMAIN ex : r.last_updated = NaT

\* merge(how='outer', indicator=True) and the 'left_only' filter: the rows
\* of df whose five-column tuple is in no row of existing_measurements.
LeftOnly(df, ex) ==
    [r \in {x \in DOMAIN df : x \notin DOMAIN ex} |-> df[r]]

KeepDuplicates(df) == df

DropDuplicates(df) == [r \in DOMAIN df |-> 1]

\* The else branch without its drop_duplicates.
DeduplicateOnlyAgainstStore(df, ex) ==
    IF ~IsEmptyBag(ex) THEN DropDuplicates(LeftOnly(df, ex))
    ELSE df

Deduplicate(df, ex) ==
    IF ~IsEmptyBag(ex) THEN DropDuplicates(LeftOnly(df, ex))
    ELSE DropDuplicates(df)

Raised ==
    [raised |-> TRUE, countries |-> <<>>, cities |-> <<>>, locations |-> <<>>,
     measurements |-> EmptyBag, resolved |-> <<>>]

NoOutput ==
    [raised |-> FALSE, countries |-> <<>>, cities |-> <<>>, locations |-> <<>>,
     measurements |-> EmptyBag, resolved |-> <<>>]

\* process_air_quality_data on the batch rs, given the four frames read.
ProcessAirQualityData(rs, ex) ==
    LET st == ResolveRecords(InitialState(ex), rs)
    IN  IF st.raised THEN Raised
        \* pd.DataFrame([]) has no 'last_updated' column: KeyError
        ELSE IF st.measurements = <<>> THEN Raised
        ELSE IF Cardinality(ColumnOffsets(st.measurements)) > 1 THEN Raised
        ELSE IF MergeKeysMismatch(ex.measurements) THEN Raised
        ELSE [raised |-> FALSE,
              countries |-> st.countries,
              cities |-> st.cities,
              locations |-> st.locations,
              measurements |->
                  Deduplicate(SeqToBag(NormalizeTimestamps(st.measurements)),
                              ex.measurements),
              resolved |-> st.resolved]

-----------------------------------------------------------------------------
(* DataProcessor.create_parameter_tables and the table names.              *)

KeyLess(a, b) ==
    \/ a[1] # b[1] /\ LexLess(a[1], b[1])
    \/ a[1] = b[1] /\ LexLess(a[2], b[2])

RECURSIVE SortKeys(_)
SortKeys(S) ==
    IF S = {} THEN <<>>
    ELSE LET m == CHOOSE x \in S : \A y \in S \ {x} : KeyLess(x, y)
         IN  <<m>> \o SortKeys(S \ {m})

GroupKeys(df) == {<<r.parameter, r.unit>> : r \in DOMAIN df}

\* The rows of one group with group.drop(columns=...) left out.
GroupRowsUndropped(df, k) ==
    [r \in {x \in DOMAIN df : <<x.parameter, x.unit>> = k} |-> df[r]]

\* The rows of one (parameter, unit) group, without those two columns.
GroupRows(df, k) ==
    LET members == {r \in DOMAIN df : <<r.parameter, r.unit>> = k}
        strip(r) == [location_id |-> r.location_id, value |-> r.value,
                     last_updated |-> r.last_updated]
        stripped == {strip(r) : r \in members}
    IN  [x \in stripped |-> df[CHOOSE r \in members : strip(r) = x]]

\* The groups in the order the loader iterates over them: groupby sorts by
\* (parameter, unit) and both dictionaries keep insertion order.
CreateParameterTables(df) ==
    LET keys == SortKeys(GroupKeys(df))
    IN  [i \in 1..Len(keys) |->
            [parameter |-> keys[i][1], unit |-> keys[i][2],
             rows |-> GroupRows(df, keys[i])]]

Prefix ==
    <<"d", "e", "1", "0", "_", "n", "a", "_", "o", "p", "e", "n", "a", "q", "_">>

Separators == {"\t", " ", "/", "_", "%", "-"}

LowerChar(c) ==
    CASE c = "M" -> "m"
      [] c = "P" -> "p"
      [] OTHER -> c

RECURSIVE DropSeparators(_)
DropSeparators(name) ==
    IF name # <<>> /\ Head(name) \in Separators THEN DropSeparators(Tail(name))
    ELSE name

\* What re.sub(r'[\s/_%-]+', '_', name).lower() would give: one underscore
\* for each maximal run of separators.
RECURSIVE SanitizeCollapsing(_)
SanitizeCollapsing(name) ==
    IF name = <<>> THEN <<>>
    ELSE IF Head(name) \in Separators
    THEN <<"_">> \o SanitizeCollapsing(DropSeparators(Tail(name)))
    ELSE <<LowerChar(Head(name))>> \o SanitizeCollapsing(Tail(name))

\* re.sub(r'[\s/_%-]', '_', name).lower()
Sanitize(name) ==
    [i \in 1..Len(name) |->
        LowerChar(IF name[i] \in Separators THEN "_" ELSE name[i])]

TableName(parameter, unit) == Sanitize(Prefix \o parameter \o <<"_">> \o unit)

-----------------------------------------------------------------------------
(* DataLoader: constraints and appends.                                    *)

IdColumn(t, row) ==
    CASE t = "countries" -> row.country_id
      [] t = "cities" -> row.city_id
      [] t = "locations" -> row.location_id

Ids(t, rows) == {IdColumn(t, rows[i]) : i \in 1..Len(rows)}

\* primary_keys: the measurements table has none.
HasPrimaryKeyColumn(t) == t \in EntityTables

\* foreign_keys: the countries table has none.
HasForeignKeys(t) == t # "countries"

UniqueIds(t, rows) ==
    \A i, j \in 1..Len(rows) : IdColumn(t, rows[i]) = IdColumn(t, rows[j]) => i = j

\* The rows of the table whose foreign key has no parent row.
NoOrphans(db, t, rows) ==
    CASE t = "countries" -> TRUE
      [] t = "cities" ->
            \A i \in 1..Len(rows) : rows[i].country_id \in Ids("countries", db.countries)
      [] t = "locations" ->
            \A i \in 1..Len(rows) : rows[i].city_id \in Ids("cities", db.cities)
      [] t = "measurements" ->
            \A r \in DOMAIN rows : r.location_id \in Ids("locations", db.locations)

AppendRows(t, rows, df) == IF t = "measurements" THEN rows (+) df ELSE rows \o df

\* to_sql(if_exists='append') is rejected by the database when the table
\* carries a constraint that the appended rows break.
InsertRejected(db, pkeys, fkeys, t, df) ==
    \/ t \in pkeys /\ ~UniqueIds(t, db[t] \o df)
    \/ t \in fkeys /\ ~NoOrphans(db, t, df)

\* ALTER TABLE ... ADD PRIMARY KEY is rejected when ids repeat.
AddPrimaryKeyRejected(db, t) == ~UniqueIds(t, db[t])

\* ALTER TABLE ... ADD FOREIGN KEY is rejected when a row has no parent.
AddForeignKeyRejected(db, t) == ~NoOrphans(db, t, db[t])

-----------------------------------------------------------------------------
(* DataLoader.__cast_data_types on a text column.  For the cast a text     *)
(* value is its length; a value that the cast changes is a value that it   *)
(* shortens.  The names of the records above are shorter than the limit,   *)
(* so that the cast leaves the rows of the pipeline below as they are.     *)

\* 'VARCHAR(256)': city_name, location_name, parameter and unit
VarcharLimit == 256

Min2(a, b) == IF a <= b THEN a ELSE b

\* ALTER COLUMN c TYPE VARCHAR(256) USING c::VARCHAR(256): an explicit cast
\* to VARCHAR(n) truncates a longer value to n characters without an error.
\* 'VARCHAR(?)' takes for n the largest length in the column.
CastDataTypes(data_type, column) ==
    LET n == IF data_type = "VARCHAR(?)" THEN MaxOfSeq(column) ELSE VarcharLimit
    IN  [i \in 1..Len(column) |-> Min2(column[i], n)]

-----------------------------------------------------------------------------
(* APIConnector.  A request ends in one outcome: "ok" (a response whose    *)
(* status raise_for_status accepts), "http_error" (raise_for_status        *)
(* raises HTTPError), "connection_error", "timeout", or "retry_error"      *)
(* (the retries of the adapter are used up).  The body of a response is    *)
(* a JSON object, with or without the key 'results', another JSON value    *)
(* ("array"), or text that is no JSON ("invalid").                         *)

Outcomes == {"ok", "http_error", "connection_error", "timeout", "retry_error"}

JsonObject(rs) == [json |-> "object", has_results |-> TRUE, results |-> rs]

JsonOther(kind) == [json |-> kind, has_results |-> FALSE, results |-> <<>>]

Bodies ==
    {JsonObject(rs) : rs \in Batches} \cup
    {JsonOther(k) : k \in {"object", "array", "invalid"}}

NoResponse == [some |-> FALSE, body |-> JsonOther("invalid")]

\* Without raise_for_status the response of a failed status is returned.
MakeRequestNoStatusCheck(outcome, body) ==
    IF outcome \in {"ok", "http_error"} THEN [some |-> TRUE, body |-> body]
    ELSE NoResponse

\* _make_request_with_retry: the response, or None after a logged error.
MakeRequestWithRetry(outcome, body) ==
    IF outcome = "ok" THEN [some |-> TRUE, body |-> body] ELSE NoResponse

\* fetch_air_quality_data: response.json() raises JSONDecodeError on text
\* that is no JSON, and .get raises AttributeError on a JSON array.
FetchAirQualityData(outcome, body) ==
    LET response == MakeRequestWithRetry(outcome, body)
    IN  IF response.some
        THEN IF response.body.json # "object"
             THEN [raised |-> TRUE, value |-> <<>>]
             ELSE [raised |-> FALSE,
                   value |-> IF response.body.has_results
                             THEN response.body.results ELSE <<>>]
        ELSE [raised |-> FALSE, value |-> <<>>]

-----------------------------------------------------------------------------
(* The pipeline: AirQualityProcessor.fetch_process_load_data.              *)

NoPrev ==
    [valid |-> FALSE, results |-> <<>>, out |-> NoOutput, log |-> "",
     faulty |-> FALSE]

AppendParam(tables, name, rows) ==
    IF name \in DOMAIN tables THEN [tables EXCEPT ![name] = @ (+) rows]
    ELSE Put(tables, name, rows)

\* The database outlives the process.  A run starts on an empty database
\* or on the one that an earlier complete run over the batch b has left.
RECURSIVE AppendGroups(_, _)
AppendGroups(tables, gs) ==
    IF gs = <<>> THEN tables
    ELSE AppendGroups(AppendParam(tables, TableName(Head(gs).parameter, Head(gs).unit),
                                  Head(gs).rows),
                      Tail(gs))

Loaded(b) ==
    LET o == ProcessAirQualityData(b, EmptyStore)
    IN  IF o.raised \/ IsEmptyBag(o.measurements)
        THEN [store |-> EmptyStore, pk |-> {}, fk |-> {}, paramTables |-> EmptyMap]
        ELSE [store |-> [countries |-> o.countries, cities |-> o.cities,
                         locations |-> o.locations, measurements |-> o.measurements],
              pk |-> EntityTables,
              fk |-> {"cities", "locations", "measurements"},
              paramTables |-> AppendGroups(EmptyMap, CreateParameterTables(o.measurements))]

InitBatches == {<<>>, <<RecA>>}

InitRun ==
    /\ results = <<>>
    /\ existing = EmptyStore
    /\ out = NoOutput
    /\ ti = 1
    /\ groups = <<>>
    /\ log = ""
    /\ closed = 0
    /\ runs = 0
    /\ faults = 0
    /\ readFault = {}
    /\ prev = NoPrev

Init ==
    /\ \E b \in InitBatches :
        /\ store = Loaded(b).store
        /\ pk = Loaded(b).pk
        /\ fk = Loaded(b).fk
        /\ paramTables = Loaded(b).paramTables
    /\ pc = "idle"
    /\ start = [store |-> store, pk |-> pk, fk |-> fk,
                paramTables |-> paramTables, faults |-> 0]
    /\ InitRun
    /\ arg = <<>>
    /\ ret = <<>>

\* results = self.api_connector.fetch_air_quality_data(limit); an exception
\* of the call is caught and logged by `except Exception`.
Fetch ==
    /\ pc = "idle"
    /\ runs < MaxRuns
    /\ \E outcome \in Outcomes, body \in Bodies :
          LET fetched == FetchAirQualityData(outcome, body)
          IN  /\ results' = fetched.value
              /\ pc' = IF fetched.raised THEN "close" ELSE "process"
              /\ log' = IF fetched.raised THEN "error" ELSE ""
    /\ start' = [store |-> store, pk |-> pk, fk |-> fk,
                 paramTables |-> paramTables, faults |-> faults]
    /\ prev' = [valid |-> runs > 0, results |-> results, out |-> out,
                log |-> log, faulty |-> faults # start.faults]
    /\ existing' = EmptyStore
    /\ out' = NoOutput
    /\ readFault' = {}
    /\ closed' = 0
    /\ ti' = 1
    /\ groups' = <<>>
    /\ UNCHANGED <<store, pk, fk, paramTables, runs, faults, arg, ret>>

NothingToDoNever(o) == FALSE

\* if measurements_df.empty
NothingToDo(o) == IsEmptyBag(o.measurements)

\* The four reads; rf are the tables whose read fails in this run.
ReadExisting(db, rf) ==
    [t \in {"countries", "cities", "locations", "measurements"} |->
        FetchTableAsDataframe(db, t, t \in rf)]

\* process_air_quality_data, and the test of measurements_df.empty.
\* Only the read of a table that holds rows can fail to any effect: the
\* read of a missing table gives the empty frame already.
Process(rf) ==
    /\ pc = "process"
    /\ faults + Cardinality(rf) <= MaxFaults
    /\ \A t \in rf : ~IsEmptyFrame(t, store[t])
    /\ readFault' = rf
    /\ faults' = faults + Cardinality(rf)
    /\ LET read == ReadExisting(store, rf)
           returned == ProcessAirQualityData(results, read)
       IN  /\ existing' = read
           /\ out' = returned
           /\ IF returned.raised
              THEN log' = "error" /\ pc' = "close"
              ELSE IF NothingToDo(returned)
              THEN log' = "no_new_data" /\ pc' = "close"
              ELSE log' = log /\ pc' = "upload"
    /\ UNCHANGED <<store, pk, fk, paramTables, results, ti, groups, closed,
                   runs, start, prev, arg, ret>>

ProcessData == \E rf \in SUBSET {"countries", "cities", "locations", "measurements"} : Process(rf)

\* One iteration of `for df, table_name, column_types in table_data`.
\* f is the step at which the store fails: "none", "upload" (nothing is
\* appended), "cast" (after the append; also a failed ADD PRIMARY KEY),
\* "add_fk" (after the primary key was added).
LoadTable(f) ==
    LET t == CoreTables[ti]
        df == out[t]
        rejected == InsertRejected(store, pk, fk, t, df)
        appended == [store EXCEPT ![t] = AppendRows(t, @, df)]
        addPk == HasPrimaryKeyColumn(t) /\ t \notin pk
        addFk == HasForeignKeys(t) /\ t \notin fk
        pkRejected == addPk /\ AddPrimaryKeyRejected(appended, t)
        fkRejected == addFk /\ AddForeignKeyRejected(appended, t)
        pk1 == IF addPk THEN pk \cup {t} ELSE pk
        fk1 == IF addFk THEN fk \cup {t} ELSE fk
        abort == /\ log' = "error"
                 /\ pc' = "close"
                 /\ UNCHANGED <<ti, groups>>
    IN  /\ pc = "upload"
        /\ f # "none" => faults < MaxFaults
        /\ f = "add_fk" => addFk
        /\ faults' = IF f = "none" THEN faults ELSE faults + 1
        /\ IF f = "upload" \/ rejected
           THEN UNCHANGED <<store, pk, fk>> /\ abort
           ELSE IF f = "cast" \/ pkRejected
           THEN store' = appended /\ UNCHANGED <<pk, fk>> /\ abort
           ELSE IF f = "add_fk" \/ fkRejected
           THEN store' = appended /\ pk' = pk1 /\ UNCHANGED fk /\ abort
           ELSE /\ store' = appended
                /\ pk' = pk1
                /\ fk' = fk1
                /\ log' = log
                /\ IF ti < Len(CoreTables)
                   THEN ti' = ti + 1 /\ pc' = "upload" /\ UNCHANGED groups
                   ELSE /\ ti' = ti
                        /\ pc' = "params"
                        /\ groups' = CreateParameterTables(out.measurements)
        /\ UNCHANGED <<paramTables, results, existing, out, closed, runs,
                       readFault, start, prev, arg, ret>>

LoadCoreTable == \E f \in {"none", "upload", "cast", "add_fk"} : LoadTable(f)

RaisesNever(f) == FALSE

\* except SQLAlchemyError ... raise RuntimeError, in each step of the loader;
\* except Exception ... raise RuntimeError, in _upload_data.
Raises(f) == f # "none"

\* One iteration over parameter_tables: upload, cast, add the foreign key.
\* f is "none", "upload" (nothing appended) or "cast" (after the append).
LoadParameterTable(f) ==
    LET g == Head(groups)
        name == TableName(g.parameter, g.unit)
    IN  /\ pc = "params"
        /\ groups # <<>>
        /\ f # "none" => faults < MaxFaults
        /\ faults' = IF f = "none" THEN faults ELSE faults + 1
        /\ paramTables' = IF f = "upload" THEN paramTables
                          ELSE AppendParam(paramTables, name, g.rows)
        /\ IF Raises(f)
           THEN log' = "error" /\ pc' = "close" /\ UNCHANGED groups
           ELSE /\ groups' = Tail(groups)
                /\ IF Tail(groups) = <<>>
                   THEN log' = "loaded" /\ pc' = "close"
                   ELSE log' = log /\ pc' = "params"
        /\ UNCHANGED <<store, pk, fk, results, existing, out, ti, closed, runs,
                       readFault, start, prev, arg, ret>>

LoadParamTable == \E f \in {"none", "upload", "cast"} : LoadParameterTable(f)

\* A `finally` that returns without the call of close.
CloseSkipped ==
    /\ pc = "close"
    /\ runs' = runs + 1
    /\ pc' = "idle"
    /\ UNCHANGED <<store, pk, fk, paramTables, results, existing, out, ti,
                   groups, log, closed, faults, readFault, start, prev, arg, ret>>

\* finally: self.api_connector.close()
Close ==
    /\ pc = "close"
    /\ closed' = closed + 1
    /\ runs' = runs + 1
    /\ pc' = "idle"
    /\ UNCHANGED <<store, pk, fk, paramTables, results, existing, out, ti,
                   groups, log, faults, readFault, start, prev, arg, ret>>

Next == Fetch \/ ProcessData \/ LoadCoreTable \/ LoadParamTable \/ Close

Spec == Init /\ [][Next]_vars

\* Weak fairness of ProcessData with its enabling condition written out:
\* Process({}) can be taken in every state where pc = "process".
ProcessDataFair == []<>(pc # "process") \/ []<><<ProcessData>>_vars

\* The call is sequential code: once it is made, each of its steps is
\* taken.  Nothing obliges the caller to make another call.
SpecLive ==
    /\ Init
    /\ [][Next]_vars
    /\ ProcessDataFair
    /\ WF_vars(LoadCoreTable)
    /\ WF_vars(LoadParamTable)
    /\ WF_vars(Close)

-----------------------------------------------------------------------------
(* Function harness: populate_id_map on an arbitrary countries frame.      *)

CountryRows ==
    {[country_id |-> i, country_name |-> n] : i \in 1..MaxId, n \in {"UK", "FR"}}

InitSeed ==
    /\ store = EmptyStore
    /\ pk = {}
    /\ fk = {}
    /\ paramTables = EmptyMap
    /\ pc = "seed"
    /\ start = [store |-> EmptyStore, pk |-> {}, fk |-> {},
                paramTables |-> EmptyMap, faults |-> 0]
    /\ InitRun
    /\ arg \in SeqsUpTo(CountryRows, MaxRows)
    /\ ret = [id_map |-> EmptyMap, counter |-> 0]

\* country_id_counter = populate_id_map(existing_countries, ..., 1)
SeedRegistry ==
    /\ pc = "seed"
    /\ ret' = PopulateIdMap(CountryPairs(arg), EmptyMap, 1)
    /\ pc' = "seeded"
    /\ UNCHANGED <<store, pk, fk, paramTables, results, existing, out, ti,
                   groups, log, closed, runs, faults, readFault, start, prev, arg>>

NextSeed == SeedRegistry

SpecSeed == InitSeed /\ [][NextSeed]_vars

-----------------------------------------------------------------------------
(* Function harnesses share the pipeline variables, which stay at rest.    *)

pipelineVars ==
    <<store, pk, fk, paramTables, results, existing, out, ti, groups, log,
      closed, runs, faults, readFault, start, prev>>

PipelineAtRest ==
    /\ store = EmptyStore
    /\ pk = {}
    /\ fk = {}
    /\ paramTables = EmptyMap
    /\ start = [store |-> EmptyStore, pk |-> {}, fk |-> {},
                paramTables |-> EmptyMap, faults |-> 0]
    /\ InitRun

-----------------------------------------------------------------------------
(* Function harness: process_air_quality_data on the measurements of one   *)
(* location, with every kind of lastUpdated string, against an empty       *)
(* store and against the stores that a run has left: with a parsed         *)
(* timestamp, with a null one, with both.                                  *)

Timestamps == {T0, T1, T2, BadTs}

TsMeasurements ==
    {RawMeasurement(Pm25, 12, t, Ug) : t \in Timestamps}
        \cup {RawMeasurement(Pm25, 13, BadTs, Ug)}

TsRecord(ms) == RawRecord("StationA", "Leeds", "UK", 0, 0, ms)

TsBatches == {<<TsRecord(ms)>> : ms \in SeqsUpTo(TsMeasurements, MaxRows)}

TsStores ==
    {EmptyStore,
     Loaded(<<RecA>>).store,
     Loaded(<<TsRecord(<<RawMeasurement(Pm25, 12, BadTs, Ug)>>)>>).store,
     Loaded(<<TsRecord(<<RawMeasurement(Pm25, 12, T0, Ug),
                         RawMeasurement(Pm25, 12, BadTs, Ug)>>)>>).store}

InitTs ==
    /\ PipelineAtRest
    /\ pc = "ts"
    /\ arg \in [rs : TsBatches, ex : TsStores]
    /\ ret = NoOutput

\* ... = self.data_processor.process_air_quality_data(results, ...)
ProcessTs ==
    /\ pc = "ts"
    /\ ret' = ProcessAirQualityData(arg.rs, arg.ex)
    /\ pc' = "ts_done"
    /\ UNCHANGED pipelineVars
    /\ UNCHANGED arg

NextTs == ProcessTs

SpecTs == InitTs /\ [][NextTs]_vars

-----------------------------------------------------------------------------
(* Function harness: the name of the table of one (parameter, unit) group. *)

NameChars == {"\t", " ", "/", "_", "%", "-", ".", "P", "m", "2"}

InitName ==
    /\ PipelineAtRest
    /\ pc = "name"
    /\ arg \in SeqsUpTo(NameChars, MaxName) \X SeqsUpTo(NameChars, 1)
    /\ ret = <<>>

\* table_name = f'de10_na_openaq_{parameter}_{unit}' and its re.sub
NameTable ==
    /\ pc = "name"
    /\ ret' = TableName(arg[1], arg[2])
    /\ pc' = "named"
    /\ UNCHANGED pipelineVars
    /\ UNCHANGED arg

NextName == NameTable

SpecName == InitName /\ [][NextName]_vars

-----------------------------------------------------------------------------
(* Function harness: create_parameter_tables on a de-duplicated frame.     *)

Ppm == <<"p", "p", "m">>

FrameRows ==
    [location_id : {1, 2}, parameter : {Pm25, O3}, value : {7},
     last_updated : {0, NaT}, unit : {Ug, Ppm}]

InitGroup ==
    /\ PipelineAtRest
    /\ pc = "group"
    /\ \E S \in SUBSET FrameRows :
        /\ Cardinality(S) <= MaxRows
        /\ arg = SetToBag(S)
    /\ ret = <<>>

\* parameter_tables = self.data_processor.create_parameter_tables(measurements_df)
GroupFrame ==
    /\ pc = "group"
    /\ ret' = CreateParameterTables(arg)
    /\ pc' = "grouped"
    /\ UNCHANGED pipelineVars
    /\ UNCHANGED arg

NextGroup == GroupFrame

SpecGroup == InitGroup /\ [][NextGroup]_vars

-----------------------------------------------------------------------------
(* Function harness: the three resolution steps of one record, after the   *)
(* registries were seeded from a store and the records before it in the    *)
(* batch were resolved.                                                    *)

ResolverRecords == {RecA, RecB, RecC, RecD, RecE}

ResolverStores ==
    {EmptyStore, Loaded(<<RecA>>).store, Loaded(<<RecA, RecB>>).store}

\* ret is the sequence of the resolver's states: before the record, after
\* its country step, after its city step, after its location step.
InitResolver ==
    /\ PipelineAtRest
    /\ pc = "country"
    /\ arg \in [ex : ResolverStores,
                 pre : SeqsUpTo(ResolverRecords, MaxBatch - 1),
                 r : ResolverRecords]
    /\ ret = <<ResolveRecords(InitialState(arg.ex), arg.pre)>>

ResolveCountry ==
    /\ pc = "country"
    /\ ret' = Append(ret, CountryProcessing(ret[Len(ret)], arg.r))
    /\ pc' = "city"
    /\ UNCHANGED pipelineVars
    /\ UNCHANGED arg

ResolveCity ==
    /\ pc = "city"
    /\ ret' = Append(ret, CityProcessing(ret[Len(ret)], arg.r))
    /\ pc' = "location"
    /\ UNCHANGED pipelineVars
    /\ UNCHANGED arg

ResolveLocation ==
    /\ pc = "location"
    /\ ret' = Append(ret, LocationProcessing(ret[Len(ret)], arg.r))
    /\ pc' = "resolved"
    /\ UNCHANGED pipelineVars
    /\ UNCHANGED arg

NextResolver == ResolveCountry \/ ResolveCity \/ ResolveLocation

SpecResolver == InitResolver /\ [][NextResolver]_vars

-----------------------------------------------------------------------------
(* Function harness: the parameter tables that one frame is written to,    *)
(* on a database without parameter tables.                                 *)

TableParameters ==
    {<<"p", "m">>, <<"P", "m">>, <<"p", "-">>, <<"p", "_">>, <<"p">>, <<"p", "_", "u">>}

TableUnits == {<<"u", "g">>, <<"g">>, <<"u", "_", "g">>}

TableRows ==
    [location_id : {1}, parameter : TableParameters, value : {7},
     last_updated : {0}, unit : TableUnits]

InitTables ==
    /\ PipelineAtRest
    /\ pc = "tables"
    /\ \E S \in SUBSET TableRows :
        /\ Cardinality(S) <= 2
        /\ arg = SetToBag(S)
    /\ ret = <<>>

\* The loop of _upload_data over create_parameter_tables(measurements_df)
LoadAllParameterTables ==
    /\ pc = "tables"
    /\ ret' = AppendGroups(EmptyMap, CreateParameterTables(arg))
    /\ pc' = "tables_loaded"
    /\ UNCHANGED pipelineVars
    /\ UNCHANGED arg

NextTables == LoadAllParameterTables

SpecTables == InitTables /\ [][NextTables]_vars

-----------------------------------------------------------------------------
(* Function harness: the cast of one text column after its rows were       *)
(* appended by to_sql, which stores text of any length.                    *)

TextLengths == {1, VarcharLimit, VarcharLimit + 1}

InitCast ==
    /\ PipelineAtRest
    /\ pc = "cast"
    /\ arg \in [data_type : {"VARCHAR(?)", "VARCHAR(256)"},
                 column : SeqsUpTo(TextLengths, MaxRows)]
    /\ ret = <<>>

\* self.__cast_data_types(table_name, self.schema, column_types)
CastColumn ==
    /\ pc = "cast"
    /\ ret' = CastDataTypes(arg.data_type, arg.column)
    /\ pc' = "cast_done"
    /\ UNCHANGED pipelineVars
    /\ UNCHANGED arg

NextCast == CastColumn

SpecCast == InitCast /\ [][NextCast]_vars

-----------------------------------------------------------------------------
(* Function harness: fetch_air_quality_data on one request.                *)

InitFetch ==
    /\ PipelineAtRest
    /\ pc = "fetch"
    /\ arg \in [outcome : Outcomes, body : Bodies]
    /\ ret = <<>>

\* results = self.api_connector.fetch_air_quality_data(limit)
FetchOnce ==
    /\ pc = "fetch"
    /\ ret' = FetchAirQualityData(arg.outcome, arg.body)
    /\ pc' = "fetch_done"
    /\ UNCHANGED pipelineVars
    /\ UNCHANGED arg

NextFetch == FetchOnce

SpecFetch == InitFetch /\ [][NextFetch]_vars

-----------------------------------------------------------------------------
(* Vocabulary of the properties.                                           *)

\* The fetch of the current call raised: the call went to its end without
\* the processing step.
FetchRaised == log = "error" /\ out = NoOutput

\* process_air_quality_data has returned or raised in the current run.
Processed == pc \in {"upload", "params", "close"} /\ ~FetchRaised

\* ... and it returned its four frames.
Returned == Processed /\ ~out.raised

RECURSIVE MaxOf(_)
MaxOf(S) ==
    IF S = {} THEN 0
    ELSE LET x == CHOOSE x \in S : TRUE IN Max2(x, MaxOf(S \ {x}))

CountryKey(row) == row.country_name
CityKey(row) == <<row.city_name, row.country_id>>
LocationKey(row) == <<row.location_name, row.city_id, row.latitude, row.longitude>>

\* The identity keys that record i of the batch resolved, given its ids.
RecCountryKey(i) == results[i].country
RecCityKey(i) == <<results[i].city, out.resolved[i].country_id>>
RecLocationKey(i) ==
    <<results[i].location, out.resolved[i].city_id,
      results[i].latitude, results[i].longitude>>

\* The measurement tuples of the batch, with the resolved location ids and
\* the normalized timestamps.
BatchTuples ==
    UNION {{[location_id |-> out.resolved[i].location_id,
             parameter |-> results[i].measurements[k].parameter,
             value |-> results[i].measurements[k].value,
             last_updated |->
                 TzLocalizeNone(ToDatetime(results[i].measurements[k].lastUpdated)),
             unit |-> results[i].measurements[k].unit] :
                k \in 1..Len(results[i].measurements)} : i \in 1..Len(results)}

Count(rows, P(_)) == Cardinality({k \in 1..Len(rows) : P(rows[k])})

-----------------------------------------------------------------------------
StableIn(table, rows, key(_), id(_), k, resolvedId) ==
    /\ (\E row \in Range(table) : key(row) = k) =>
            /\ \E row \in Range(table) : key(row) = k /\ id(row) = resolvedId
            /\ \A row \in Range(rows) : key(row) # k
    /\ LET same(row) == key(row) = k IN Count(rows, same) <= 1

(* C1  Key stability.  In a run whose four reads succeeded, a record whose *)
(* country, city or location identity key is already in the store resolves *)
(* to the id of a stored row with that key and no row is output for the    *)
(* key; a key met earlier in the batch resolves to the same id as before;  *)
(* and no key gets more than one output row.                               *)
KeyStability ==
    (Returned /\ readFault = {}) =>
        \A i \in 1..Len(results) :
            LET ids == out.resolved[i]
                cid(row) == row.country_id
                yid(row) == row.city_id
                lid(row) == row.location_id
            IN  /\ StableIn(start.store.countries, out.countries, CountryKey, cid,
                            RecCountryKey(i), ids.country_id)
                /\ StableIn(start.store.cities, out.cities, CityKey, yid,
                            RecCityKey(i), ids.city_id)
                /\ StableIn(start.store.locations, out.locations, LocationKey, lid,
                            RecLocationKey(i), ids.location_id)
                /\ \A j \in 1..(i - 1) :
                    /\ RecCountryKey(j) = RecCountryKey(i)
                            => out.resolved[j].country_id = ids.country_id
                    /\ RecCityKey(j) = RecCityKey(i)
                            => out.resolved[j].city_id = ids.city_id
                    /\ RecLocationKey(j) = RecLocationKey(i)
                            => out.resolved[j].location_id = ids.location_id

\* A run that met a stored country again and met one new location twice.
KeyStabilityWitness ==
    /\ Returned
    /\ readFault = {}
    /\ \E i \in 1..Len(results) :
        \E row \in Range(start.store.countries) :
            CountryKey(row) = RecCountryKey(i) /\ row.country_id = out.resolved[i].country_id
    /\ \E i, j \in 1..Len(results) :
        /\ j < i
        /\ RecLocationKey(j) = RecLocationKey(i)
        /\ \E row \in Range(out.locations) : LocationKey(row) = RecLocationKey(i)

-----------------------------------------------------------------------------
UniqueKeys(rows, key(_)) ==
    \A i, j \in 1..Len(rows) : key(rows[i]) = key(rows[j]) => i = j

(* C2  Every entity table of the store holds no two rows with the same     *)
(* surrogate id and no two rows with the same identity key.                *)
EntityRowsUnique ==
    /\ UniqueIds("countries", store.countries)
    /\ UniqueIds("cities", store.cities)
    /\ UniqueIds("locations", store.locations)
    /\ UniqueKeys(store.countries, CountryKey)
    /\ UniqueKeys(store.cities, CityKey)
    /\ UniqueKeys(store.locations, LocationKey)

-----------------------------------------------------------------------------
(* C3  No orphans.  In every output of process_air_quality_data each new   *)
(* city row names the id of a country row read or output, each new         *)
(* location row the id of a city row read or output, and each measurement  *)
(* row the id of a location row read or output.                            *)

NoOrphanOutput ==
    Returned =>
        /\ \A row \in Range(out.cities) :
            row.country_id \in Ids("countries", existing.countries \o out.countries)
        /\ \A row \in Range(out.locations) :
            row.city_id \in Ids("cities", existing.cities \o out.cities)
        /\ \A m \in DOMAIN out.measurements :
            m.location_id \in Ids("locations", existing.locations \o out.locations)

\* A new city under a stored country, a new location and a measurement.
NoOrphanWitness ==
    /\ Returned
    /\ \E row \in Range(out.cities) :
        row.country_id \in Ids("countries", existing.countries)
    /\ out.locations # <<>>
    /\ ~IsEmptyBag(out.measurements)

-----------------------------------------------------------------------------
(* C4  Dedup correctness.  When the read of the measurements table         *)
(* succeeded, the returned measurement relation holds each tuple once,     *)
(* holds no tuple of the table, and holds every tuple of the batch that    *)
(* is not in the table.                                                    *)

DedupCorrect ==
    (Returned /\ "measurements" \notin readFault) =>
        /\ \A r \in DOMAIN out.measurements : out.measurements[r] = 1
        /\ DOMAIN out.measurements \cap DOMAIN start.store.measurements = {}
        /\ DOMAIN out.measurements = BatchTuples \ DOMAIN start.store.measurements

\* One tuple of the batch was dropped as stored, another occurred twice in
\* the batch and was returned.
DedupWitness ==
    /\ Returned
    /\ "measurements" \notin readFault
    /\ BatchTuples \cap DOMAIN start.store.measurements # {}
    /\ \E i \in 1..Len(results) :
        /\ Len(results[i].measurements) = 2
        /\ results[i].measurements[1] = results[i].measurements[2]
        /\ \E r \in DOMAIN out.measurements :
            r.location_id = out.resolved[i].location_id

-----------------------------------------------------------------------------
(* C5  The measurements table of the store never holds two rows with the   *)
(* same (location_id, parameter, value, last_updated, unit) tuple.         *)

NoDuplicateMeasurements ==
    \A r \in DOMAIN store.measurements : store.measurements[r] = 1

-----------------------------------------------------------------------------
(* Idempotence: vocabulary.                                                *)

\* The run is on the batch of the previous run and neither met a store fault.
SameBatchAgain ==
    /\ Processed
    /\ prev.valid
    /\ results = prev.results
    /\ ~prev.faulty
    /\ faults = start.faults

SecondRunStable ==
    /\ out.resolved = prev.out.resolved
    /\ IsEmptyBag(out.measurements)
    /\ store = start.store
    /\ paramTables = start.paramTables

NoNewEntityRows ==
    out.countries = <<>> /\ out.cities = <<>> /\ out.locations = <<>>

\* C6  Idempotence.  After a fault-free run that loaded its batch, a
\* fault-free run on the same batch resolves the same ids, returns no
\* country, city or location row and no measurement row, and leaves the
\* store unchanged.
IdempotenceAsStated ==
    (SameBatchAgain /\ prev.log = "loaded") => (SecondRunStable /\ NoNewEntityRows)

-----------------------------------------------------------------------------
Allocated(t, seed, rows, key(_), batchKeys) ==
    LET M == MaxOf(Ids(t, seed))
        newKeys == batchKeys \ {key(row) : row \in Range(seed)}
        N == Cardinality(newKeys)
    IN  /\ Len(rows) = N
        /\ Ids(t, rows) = (M + 1)..(M + N)
        /\ {key(row) : row \in Range(rows)} = newKeys

(* C7  Monotonic allocation.  With M the largest id of the frame that      *)
(* seeded a registry (0 for an empty frame) and N the number of distinct   *)
(* identities of the batch that the frame does not hold, the output rows   *)
(* of that entity type are N rows, one per new identity, with the ids      *)
(* M+1 .. M+N.                                                             *)
MonotonicAllocation ==
    Returned =>
        /\ Allocated("countries", existing.countries, out.countries, CountryKey,
                     {RecCountryKey(i) : i \in 1..Len(results)})
        /\ Allocated("cities", existing.cities, out.cities, CityKey,
                     {RecCityKey(i) : i \in 1..Len(results)})
        /\ Allocated("locations", existing.locations, out.locations, LocationKey,
                     {RecLocationKey(i) : i \in 1..Len(results)})

\* Two new locations allocated after a stored one.
MonotonicWitness ==
    /\ Returned
    /\ existing.locations # <<>>
    /\ Len(out.locations) = 2
    /\ Len(out.countries) = 1

-----------------------------------------------------------------------------
(* C8  Seeding.  After populate_id_map has scanned the rows of a frame,    *)
(* in any row order and with gaps in the ids, the next id is the largest   *)
(* id + 1, and 1 for the empty frame that a missing table gives.           *)

SeedingNextId ==
    /\ pc = "seeded" =>
        ret.counter = IF arg = <<>> THEN 1 ELSE MaxOf(Ids("countries", arg)) + 1
    /\ PopulateIdMap(CountryPairs(FetchTableAsDataframe(EmptyStore, "countries", FALSE)),
                     EmptyMap, 1).counter = 1

\* Ids 3 then 1: out of order and with a gap.
SeedingWitness ==
    /\ pc = "seeded"
    /\ Len(arg) = 2
    /\ arg[1].country_id = 3
    /\ arg[2].country_id = 1
    /\ ret.counter = 4

-----------------------------------------------------------------------------
WellFormed(r) == r.ok

(* C9  A record that lacks a required field is skipped: the resolver       *)
(* returns what it returns for the batch without that record.              *)
MalformedRecordSkipped ==
    (Processed /\ \E i \in 1..Len(results) : ~results[i].ok) =>
        out = ProcessAirQualityData(SelectSeq(results, WellFormed), existing)

-----------------------------------------------------------------------------
(* C10  A run in which a read of an existing table failed ends reported    *)
(* as failed and has appended no row to any table.                         *)

ReadFailureIsFatal ==
    (pc = "close" /\ readFault # {}) =>
        /\ log = "error"
        /\ store = start.store
        /\ paramTables = start.paramTables

-----------------------------------------------------------------------------
\* Every core table holds the rows it held at the start of the run followed
\* by the rows that process_air_quality_data returned for it.
AllCoreTablesAppended ==
    \A t \in Range(CoreTables) : store[t] = AppendRows(t, start.store[t], out[t])

(* C11  No partial commit.  When a run whose reads succeeded has ended,    *)
(* whatever store write or table-configuration step failed in it, the      *)
(* store holds the rows of all four core tables for the batch or none of   *)
(* the batch's rows.                                                       *)
NoPartialCommit ==
    (pc = "close" /\ Returned /\ readFault = {}) =>
        store = start.store \/ AllCoreTablesAppended

-----------------------------------------------------------------------------
(* C12  Nothing to do.  When process_air_quality_data returns an empty     *)
(* measurement frame, the run reports "No new data to process.", goes      *)
(* straight to the end without an error, and no table is appended to or    *)
(* altered: core tables, their constraints and the parameter tables are    *)
(* what they were at the start of the run.                                 *)
NothingToDoSkipsStorage ==
    (Processed /\ ~out.raised /\ DOMAIN out.measurements = {}) =>
        /\ pc = "close"
        /\ log = "no_new_data"
        /\ store = start.store
        /\ pk = start.pk
        /\ fk = start.fk
        /\ paramTables = start.paramTables

\* All measurements of the batch are stored already and the batch brings a
\* new country, city and location, which are returned and not stored.
NothingToDoWitness ==
    /\ pc = "close"
    /\ ~out.raised
    /\ DOMAIN out.measurements = {}
    /\ readFault = {}
    /\ out.countries # <<>>
    /\ out.locations # <<>>
    /\ log = "no_new_data"

-----------------------------------------------------------------------------
\* The batch is empty, or its records are well formed and bring no
\* measurement.
NoMeasurementFetched ==
    \A i \in 1..Len(results) : results[i].ok /\ results[i].measurements = <<>>

(* C13  Empty fetch.  A run whose batch is empty, or whose records all     *)
(* have an empty measurement list, ends as a normal no-op: the processing  *)
(* step raises nothing, no error is reported and nothing is written.       *)
EmptyFetchIsNoOp ==
    (Processed /\ NoMeasurementFetched /\ readFault = {}) =>
        /\ ~out.raised
        /\ log # "error"
        /\ store = start.store
        /\ paramTables = start.paramTables

-----------------------------------------------------------------------------
(* Timestamps: vocabulary (harness SpecTs, one record per batch).          *)

TsList == arg.rs[1].measurements

\* The row of measurement k of the batch with the given last_updated.
TsRow(k, t) ==
    [location_id |-> 1, parameter |-> TsList[k].parameter,
     value |-> TsList[k].value, last_updated |-> t, unit |-> TsList[k].unit]

\* The row is returned, or dropped as stored already.
TsEmitted(row) ==
    row \in DOMAIN ret.measurements \cup DOMAIN arg.ex.measurements

ParsedOffsets == {TsList[k].lastUpdated.off : k \in {j \in 1..Len(TsList) : TsList[j].lastUpdated.ok}}

\* The measurements table holds rows and none of them has a timestamp.
StoredTimestampsAllNull ==
    /\ DOMAIN arg.ex.measurements # {}
    /\ \A r \in DOMAIN arg.ex.measurements : r.last_updated = NaT

-----------------------------------------------------------------------------
(* Table names (harness SpecName).                                         *)

\* The formatted name f'de10_na_openaq_{parameter}_{unit}' before re.sub.
RawName == Prefix \o arg[1] \o <<"_">> \o arg[2]

\* C15 as stated: every maximal run of whitespace, '/', '_', '%' or '-' of
\* the formatted name is replaced by one underscore, the result is
\* lower-cased and the other characters are kept.
SanitizeCollapsesRuns ==
    pc = "named" => ret = SanitizeCollapsing(RawName)

\* C15 amended: every single character of the formatted name that is
\* whitespace, '/', '_', '%' or '-' is replaced by one underscore (a run of
\* n such characters gives n underscores), every other character is kept,
\* lower-cased: the name keeps its length.
SanitizePerCharacter ==
    pc = "named" =>
        /\ Len(ret) = Len(RawName)
        /\ \A i \in 1..Len(RawName) :
            CASE RawName[i] \in {"\t", " ", "/", "_", "%", "-"} -> ret[i] = "_"
              [] RawName[i] = "P" -> ret[i] = "p"
              [] RawName[i] = "M" -> ret[i] = "m"
              [] OTHER -> ret[i] = RawName[i]

\* Parameter "P-" and unit "/": the run "-_/" becomes three underscores.
SanitizeWitness ==
    /\ pc = "named"
    /\ arg = <<<<"P", "-">>, <<"/">>>>
    /\ ret = Prefix \o <<"p", "_", "_", "_">>

-----------------------------------------------------------------------------
(* Parameter tables (harness SpecGroup).                                   *)

\* The rows of the frame with the given (parameter, unit).
RowsOfKey(p, u) == {r \in DOMAIN arg : r.parameter = p /\ r.unit = u}

(* C16  Partition.  create_parameter_tables gives one group for each       *)
(* (parameter, unit) of the frame and no other: the groups have distinct   *)
(* keys, every row of the frame is in the group of its own key (so in      *)
(* exactly one group), a group holds as many rows as the frame has for     *)
(* its key, its rows have the columns location_id, value and last_updated  *)
(* only, and no group is empty.                                            *)
GroupsPartitionRows ==
    pc = "grouped" =>
        /\ \A i, j \in 1..Len(ret) :
            (ret[i].parameter = ret[j].parameter /\ ret[i].unit = ret[j].unit) => i = j
        /\ \A r \in DOMAIN arg :
            \E i \in 1..Len(ret) :
                /\ ret[i].parameter = r.parameter
                /\ ret[i].unit = r.unit
                /\ [location_id |-> r.location_id, value |-> r.value,
                    last_updated |-> r.last_updated] \in DOMAIN ret[i].rows
        /\ \A i \in 1..Len(ret) :
            /\ BagCardinality(ret[i].rows) =
                    Cardinality(RowsOfKey(ret[i].parameter, ret[i].unit))
            /\ BagCardinality(ret[i].rows) > 0
            /\ \A x \in DOMAIN ret[i].rows :
                DOMAIN x = {"location_id", "value", "last_updated"}

\* Three rows, two of one (parameter, unit) and one of the same parameter
\* with another unit: two groups.
GroupsWitness ==
    /\ pc = "grouped"
    /\ Len(ret) = 2
    /\ ret[1].parameter = ret[2].parameter
    /\ \E i \in 1..2 : BagCardinality(ret[i].rows) = 2

-----------------------------------------------------------------------------
\* The UTC wall-clock reading of the instant that a parseable string denotes.
UtcReading(t) == t.wall - t.off

(* C17  UTC normalization (harness SpecTs).  For a batch whose lastUpdated *)
(* strings all parse, the call returns and every row is emitted with the   *)
(* UTC reading of its instant as last_updated, so two strings that denote  *)
(* one instant with different offsets give one dedup tuple.                *)
NormalizedToUtc ==
    (/\ pc = "ts_done"
     /\ TsList # <<>>
     /\ ~StoredTimestampsAllNull
     /\ \A k \in 1..Len(TsList) : TsList[k].lastUpdated.ok) =>
        /\ ~ret.raised
        /\ \A k \in 1..Len(TsList) :
            TsEmitted(TsRow(k, UtcReading(TsList[k].lastUpdated)))

-----------------------------------------------------------------------------
(* The resolver (harness SpecResolver): vocabulary.                        *)

\* The identity keys of record r, given the registries of state st.
CountryKeyOf(st, r) == r.country
CityKeyOf(st, r) == <<r.city, st.country_id_map[r.country]>>
LocationKeyOf(st, r) ==
    <<r.location, st.city_id_map[CityKeyOf(st, r)], r.latitude, r.longitude>>

\* The country, city and location steps have been taken.
CountryDone == pc \in {"city", "location", "resolved"}
CityDone == pc \in {"location", "resolved"}
LocationDone == pc = "resolved"

(* C18  Resolving a key that its registry holds has no side effect: the    *)
(* step leaves the id map, the counter and the list of new rows of that    *)
(* entity type, and all the rest of the resolver's state, as they were.    *)
ResolveHitNoSideEffect ==
    /\ (CountryDone /\ CountryKeyOf(ret[1], arg.r) \in DOMAIN ret[1].country_id_map)
            => ret[2] = ret[1]
    /\ (CityDone /\ CityKeyOf(ret[2], arg.r) \in DOMAIN ret[2].city_id_map)
            => ret[3] = ret[2]
    /\ (LocationDone /\ LocationKeyOf(ret[3], arg.r) \in DOMAIN ret[3].location_id_map)
            => ret[4] = ret[3]

\* A record whose country, city and location keys are all held by
\* registries that were seeded from a store with rows: three hits.
ResolveHitWitness ==
    /\ pc = "resolved"
    /\ arg.ex # EmptyStore
    /\ CountryKeyOf(ret[1], arg.r) \in DOMAIN ret[1].country_id_map
    /\ CityKeyOf(ret[2], arg.r) \in DOMAIN ret[2].city_id_map
    /\ LocationKeyOf(ret[3], arg.r) \in DOMAIN ret[3].location_id_map
    /\ ret[4].location_id_counter > 1

-----------------------------------------------------------------------------
\* Between the states b and a, one id was allocated for key in the registry
\* with the fields map, counter and rows: the id is the counter of b, the
\* mapping is recorded, the counter grew by one, newRow was appended, and
\* nothing else changed.
AllocatedOne(b, a, map, counter, rows, key, newRow) ==
    /\ DOMAIN a[map] = DOMAIN b[map] \cup {key}
    /\ a[map][key] = b[counter]
    /\ \A k \in DOMAIN b[map] : a[map][k] = b[map][k]
    /\ a[counter] = b[counter] + 1
    /\ a[rows] = Append(b[rows], newRow)
    /\ \A f \in DOMAIN b \ {map, counter, rows} : a[f] = b[f]

\* The rows hold one row for each key of the batch that the seed lacks.
OneRowPerNewKey(rows, key(_), batchKeys, seedKeys) ==
    /\ {key(row) : row \in Range(rows)} = batchKeys \ seedKeys
    /\ Len(rows) = Cardinality(batchKeys \ seedKeys)

(* C19  Resolving a key that its registry lacks allocates the current next *)
(* id, records the mapping, increments the counter by one and appends one  *)
(* row with that id and the identity's attributes; so, once the last       *)
(* record is resolved, the new rows of each entity type are one row for    *)
(* each identity of the batch that the seeded registry lacked.             *)
ResolveMissAllocates ==
    /\ (CountryDone /\ CountryKeyOf(ret[1], arg.r) \notin DOMAIN ret[1].country_id_map) =>
            AllocatedOne(ret[1], ret[2], "country_id_map", "country_id_counter",
                         "countries", CountryKeyOf(ret[1], arg.r),
                         [country_id |-> ret[1].country_id_counter,
                          country_name |-> arg.r.country])
    /\ (CityDone /\ CityKeyOf(ret[2], arg.r) \notin DOMAIN ret[2].city_id_map) =>
            AllocatedOne(ret[2], ret[3], "city_id_map", "city_id_counter",
                         "cities", CityKeyOf(ret[2], arg.r),
                         [city_id |-> ret[2].city_id_counter,
                          city_name |-> arg.r.city,
                          country_id |-> ret[2].country_id_map[arg.r.country]])
    /\ (LocationDone /\ LocationKeyOf(ret[3], arg.r) \notin DOMAIN ret[3].location_id_map) =>
            AllocatedOne(ret[3], ret[4], "location_id_map", "location_id_counter",
                         "locations", LocationKeyOf(ret[3], arg.r),
                         [location_id |-> ret[3].location_id_counter,
                          location_name |-> arg.r.location,
                          city_id |-> ret[3].city_id_map[CityKeyOf(ret[3], arg.r)],
                          latitude |-> arg.r.latitude,
                          longitude |-> arg.r.longitude])
    /\ LocationDone =>
        LET seed == InitialState(arg.ex)
            batch == Range(Append(arg.pre, arg.r))
        IN  /\ OneRowPerNewKey(ret[4].countries, CountryKey,
                               {CountryKeyOf(ret[4], x) : x \in batch},
                               DOMAIN seed.country_id_map)
            /\ OneRowPerNewKey(ret[4].cities, CityKey,
                               {CityKeyOf(ret[4], x) : x \in batch},
                               DOMAIN seed.city_id_map)
            /\ OneRowPerNewKey(ret[4].locations, LocationKey,
                               {LocationKeyOf(ret[4], x) : x \in batch},
                               DOMAIN seed.location_id_map)

\* A record that brings a new country, city and location to registries
\* seeded from a store with rows, after another record of the batch.
ResolveMissWitness ==
    /\ pc = "resolved"
    /\ arg.ex # EmptyStore
    /\ arg.pre # <<>>
    /\ CountryKeyOf(ret[1], arg.r) \notin DOMAIN ret[1].country_id_map
    /\ CityKeyOf(ret[2], arg.r) \notin DOMAIN ret[2].city_id_map
    /\ LocationKeyOf(ret[3], arg.r) \notin DOMAIN ret[3].location_id_map
    /\ ret[4].location_id_counter = ret[1].location_id_counter + 1

-----------------------------------------------------------------------------
\* The ids that record x resolves to with the registries of state st.
CountryIdOf(st, x) == st.country_id_map[CountryKeyOf(st, x)]
CityIdOf(st, x) == st.city_id_map[CityKeyOf(st, x)]
LocationIdOf(st, x) == st.location_id_map[LocationKeyOf(st, x)]

(* C20  Compound identity.  Take a record x resolved earlier in the batch  *)
(* (its ids read when it was resolved) and the record r resolved last.     *)
(* Same city name under different countries: different city ids.  Same    *)
(* location name in the same city with another latitude or longitude:      *)
(* different location ids.  Same country, city, location name, latitude    *)
(* and longitude: the same three ids.                                      *)
CompoundIdentity ==
    LocationDone =>
        \A i \in 1..Len(arg.pre) :
            LET x == arg.pre[i]
                r == arg.r
                b == ret[1]
                a == ret[4]
            IN  /\ (x.city = r.city /\ x.country # r.country)
                        => CityIdOf(b, x) # CityIdOf(a, r)
                /\ (/\ x.location = r.location
                    /\ CityIdOf(b, x) = CityIdOf(a, r)
                    /\ (x.latitude # r.latitude \/ x.longitude # r.longitude))
                        => LocationIdOf(b, x) # LocationIdOf(a, r)
                /\ (/\ x.country = r.country
                    /\ x.city = r.city
                    /\ x.location = r.location
                    /\ x.latitude = r.latitude
                    /\ x.longitude = r.longitude)
                        => /\ CountryIdOf(b, x) = CountryIdOf(a, r)
                           /\ CityIdOf(b, x) = CityIdOf(a, r)
                           /\ LocationIdOf(b, x) = LocationIdOf(a, r)

\* Leeds in the UK, then Leeds in France: two city ids, hence two location
\* ids for the station of the same name.
CompoundIdentityWitness ==
    /\ pc = "resolved"
    /\ arg.pre = <<RecA>>
    /\ arg.r = RecB
    /\ CityIdOf(ret[1], RecA) # CityIdOf(ret[4], RecB)
    /\ LocationIdOf(ret[1], RecA) # LocationIdOf(ret[4], RecB)

-----------------------------------------------------------------------------
\* The index of the first record of the batch whose key, as given by
\* keyOf, is k (0 when no record has it).
FirstSeen(k, keyOf(_)) ==
    LET S == {i \in 1..Len(results) : keyOf(i) = k}
    IN  IF S = {} THEN 0 ELSE CHOOSE i \in S : \A j \in S : i <= j

\* Along the list of new rows, the ids grow and so do the positions in the
\* batch of the records that brought the rows' keys first.
InFirstSeenOrder(t, rows, key(_), keyOf(_)) ==
    /\ \A a \in 1..Len(rows) : FirstSeen(key(rows[a]), keyOf) > 0
    /\ \A a, b \in 1..Len(rows) :
        a < b => /\ IdColumn(t, rows[a]) < IdColumn(t, rows[b])
                 /\ FirstSeen(key(rows[a]), keyOf) <= FirstSeen(key(rows[b]), keyOf)

(* C21  Resolution order.  In every returned batch the new rows of each    *)
(* entity type carry ids that grow in the order in which the records of    *)
(* the batch brought their identities first; and within a record the       *)
(* country is resolved before the city and the city before the location:   *)
(* a new city row carries the country id its record resolved to, a new     *)
(* location row the city id its record resolved to, also when the parent   *)
(* is new in that very record.                                             *)
ResolvedInBatchOrder ==
    Returned =>
        /\ InFirstSeenOrder("countries", out.countries, CountryKey, RecCountryKey)
        /\ InFirstSeenOrder("cities", out.cities, CityKey, RecCityKey)
        /\ InFirstSeenOrder("locations", out.locations, LocationKey, RecLocationKey)
        /\ \A a \in 1..Len(out.cities) :
            out.cities[a].country_id =
                out.resolved[FirstSeen(CityKey(out.cities[a]), RecCityKey)].country_id
        /\ \A a \in 1..Len(out.locations) :
            out.locations[a].city_id =
                out.resolved[FirstSeen(LocationKey(out.locations[a]), RecLocationKey)].city_id

\* Two records that each bring a new country, city and location: the rows
\* of the first record come first and get the smaller ids.
BatchOrderWitness ==
    /\ Returned
    /\ Len(out.countries) = 2
    /\ Len(out.cities) = 2
    /\ Len(out.locations) = 2
    /\ FirstSeen(CountryKey(out.countries[1]), RecCountryKey) = 1
    /\ FirstSeen(CountryKey(out.countries[2]), RecCountryKey) = 2

-----------------------------------------------------------------------------
(* C22  Empty existing set.  When the frame read from the measurements     *)
(* table is empty (first run, table not created), the returned             *)
(* measurement rows are the distinct tuples of the batch, one row for      *)
(* each: nothing is subtracted.                                            *)
NoSubtractionOnEmptyStore ==
    (Returned /\ IsEmptyBag(existing.measurements)) =>
        /\ DOMAIN out.measurements = BatchTuples
        /\ \A r \in DOMAIN out.measurements : out.measurements[r] = 1

\* A first run (no measurements table, no failed read) on a batch that
\* holds one tuple twice.
EmptyStoreDedupWitness ==
    /\ Returned
    /\ IsEmptyBag(store.measurements)
    /\ IsEmptyBag(existing.measurements)
    /\ readFault = {}
    /\ pc = "upload"
    /\ ti = 1
    /\ \E i \in 1..Len(results) :
        /\ Len(results[i].measurements) = 2
        /\ results[i].measurements[1] = results[i].measurements[2]
    /\ BatchTuples # {}
    /\ DOMAIN out.measurements = BatchTuples

-----------------------------------------------------------------------------
(* C23  Null timestamps in dedup tuples (harness SpecTs).  In a batch      *)
(* whose parseable strings agree on their offset, each row with a null     *)
(* last_updated is returned once, collapsed with the rows of the batch     *)
(* that equal it in all five fields, unless the store holds a row with a   *)
(* null last_updated and the same other four fields; null-timestamp rows   *)
(* that differ in another field are all kept.                              *)
NullTimestampDedupLiteral ==
    (pc = "ts_done" /\ Cardinality(ParsedOffsets) <= 1) =>
        \A k \in 1..Len(TsList) :
            ~TsList[k].lastUpdated.ok =>
                IF TsRow(k, NaT) \in DOMAIN arg.ex.measurements
                THEN TsRow(k, NaT) \notin DOMAIN ret.measurements
                ELSE /\ TsRow(k, NaT) \in DOMAIN ret.measurements
                     /\ ret.measurements[TsRow(k, NaT)] = 1

-----------------------------------------------------------------------------
(* C24  Append-only store (harness SpecCast).  The rows that an append     *)
(* has put in a table are in the table with the same attribute values      *)
(* after the next step of the load, the cast of the table's columns.       *)
CastKeepsValues ==
    pc = "cast_done" => ret = arg.column

-----------------------------------------------------------------------------
(* C25  A failure of a step of _upload_data aborts the run: the run is     *)
(* reported as an error, never as a success, and no append, cast or        *)
(* constraint step that comes after the failed one is executed.            *)

\* A store fault has hit a step of the upload of the current run.
UploadFault == faults > start.faults + Cardinality(readFault)

\* The run ended in an error that was raised by _upload_data.
AbortedInUpload ==
    /\ pc \in {"close", "idle"}
    /\ log = "error"
    /\ ~out.raised
    /\ ~FetchRaised

RECURSIVE GroupRowCount(_)
GroupRowCount(gs) ==
    IF gs = <<>> THEN 0 ELSE BagCardinality(Head(gs).rows) + GroupRowCount(Tail(gs))

RECURSIVE ParamRowCount(_, _)
ParamRowCount(tables, names) ==
    IF names = {} THEN 0
    ELSE LET n == CHOOSE x \in names : TRUE
         IN  BagCardinality(tables[n]) + ParamRowCount(tables, names \ {n})

\* The tables after the one at which the run failed are as the run found
\* them, and so are the parameter tables of the groups after the failed one.
LaterStepsNotExecuted ==
    /\ \A j \in (ti + 1)..Len(CoreTables) :
          /\ store[CoreTables[j]] = start.store[CoreTables[j]]
          /\ CoreTables[j] \in pk <=> CoreTables[j] \in start.pk
          /\ CoreTables[j] \in fk <=> CoreTables[j] \in start.fk
    /\ groups = <<>> => paramTables = start.paramTables
    /\ groups # <<>> =>
          ParamRowCount(paramTables, DOMAIN paramTables) + GroupRowCount(Tail(groups))
             <= ParamRowCount(start.paramTables, DOMAIN start.paramTables)
                  + BagCardinality(out.measurements)

-----------------------------------------------------------------------------
(* C26  Fetch (harness SpecFetch).  As stated: the call never raises; it   *)
(* returns the empty list for a failed request and otherwise the list      *)
(* under 'results', the empty list when the key is absent.                 *)
FetchAsStated ==
    pc = "fetch_done" =>
        /\ ~ret.raised
        /\ ret.value = IF arg.outcome = "ok" /\ arg.body.has_results
                       THEN arg.body.results ELSE <<>>

(* C26  Fetch, amended.  A failed request (HTTP error status, connection   *)
(* error, timeout, retries used up) never raises and gives the empty       *)
(* list.  A response whose body is a JSON object gives the list under      *)
(* 'results', the empty list when the key is absent.  A response whose     *)
(* body is no JSON object makes the call raise.                            *)
FetchAbsorbsFailedRequests ==
    pc = "fetch_done" =>
        /\ arg.outcome # "ok" => (~ret.raised /\ ret.value = <<>>)
        /\ (arg.outcome = "ok" /\ arg.body.json = "object") =>
              /\ ~ret.raised
              /\ ret.value = IF arg.body.has_results THEN arg.body.results ELSE <<>>
        /\ (arg.outcome = "ok" /\ arg.body.json # "object") => ret.raised

\* A failed status whose response carries records: nothing of it is returned.
FetchWitness ==
    /\ pc = "fetch_done"
    /\ arg.outcome = "http_error"
    /\ arg.body.results # <<>>
    /\ ret = [raised |-> FALSE, value |-> <<>>]

-----------------------------------------------------------------------------
(* C27  Order of the appends.  While the core tables are loaded, the       *)
(* tables from the current one on and the parameter tables are as the      *)
(* run found them; and in every state of the store, that of a run          *)
(* aborted part-way included, every city references a stored country,      *)
(* every location a stored city and every measurement a stored location.   *)

StoreNoOrphans ==
    \A t \in {"cities", "locations", "measurements"} : NoOrphans(store, t, store[t])

AppendedInOrder ==
    pc = "upload" =>
        /\ \A j \in ti..Len(CoreTables) :
              store[CoreTables[j]] = start.store[CoreTables[j]]
        /\ paramTables = start.paramTables

ParentsStoredFirst == AppendedInOrder /\ StoreNoOrphans

\* A run aborted after the append of its cities, before its locations.
ParentsStoredFirstWitness ==
    /\ pc = "close"
    /\ log = "error"
    /\ ti = 2
    /\ store.cities # start.store.cities
    /\ out.locations # <<>>
    /\ store.locations = start.store.locations

-----------------------------------------------------------------------------
\* A measurement row as its parameter table holds it.
WithoutParameterAndUnit(r) ==
    [location_id |-> r.location_id, value |-> r.value,
     last_updated |-> r.last_updated]

(* C28  Between runs, whatever happened in the runs before, every row of   *)
(* the measurements table is in the parameter table of its parameter and   *)
(* unit, without those two columns.                                        *)
MeasurementsInParameterTables ==
    pc = "idle" =>
        \A r \in DOMAIN store.measurements :
            LET name == TableName(r.parameter, r.unit)
            IN  /\ name \in DOMAIN paramTables
                /\ WithoutParameterAndUnit(r) \in DOMAIN paramTables[name]

-----------------------------------------------------------------------------
(* C29  Injective naming (harness SpecTables).  The groups of one frame    *)
(* are written to as many tables as there are (parameter, unit) pairs:     *)
(* no two groups share a destination table.                                *)
TableNamesInjective ==
    pc = "tables_loaded" =>
        Cardinality(DOMAIN ret) = Cardinality(GroupKeys(arg))

-----------------------------------------------------------------------------
\* During a call the session is open; after it the session was closed once
\* and the call has reported a load, nothing to do, or an error.
ClosedOnce ==
    /\ pc # "idle" => closed = 0
    /\ (pc = "idle" /\ runs > 0) =>
          (closed = 1 /\ log \in {"loaded", "no_new_data", "error"})

(* C30  Every call of fetch_process_load_data returns (specification       *)
(* SpecLive): whatever fails in fetch, processing or upload is caught and  *)
(* logged, and on every path the API session is closed exactly once.       *)
CallReturnsAndClosesOnce ==
    /\ []ClosedOnce
    /\ (pc # "idle") ~> (pc = "idle" /\ closed = 1)

\* A call whose fetch raised has returned.
CallReturnsWitness ==
    /\ pc = "idle"
    /\ closed = 1
    /\ FetchRaised
    /\ runs = 1

====
